---- MODULE Spec2Model ----
(***************************************************************************)
(* A model of shop/views/dashboard.py: the DashboardRouter route table,    *)
(* the root view and the ProductsDashboard view-set (serializer selection, *)
(* breadcrumbs, renderer context, and the list / retrieve / new / create / *)
(* update handlers), run through the request pipeline of the REST          *)
(* framework the view-set inherits from (permission check, handler         *)
(* lookup, handler, response finalisation).                                *)
(***************************************************************************)
EXTENDS Integers, Sequences, FiniteSets, TLC

VARIABLES
    products,       \* ProductModel.objects: the stored products, indexed by pk
    meta_fields,    \* list_serializer_class.Meta.fields (class-level, shared)
    detail_serializer_classes,  \* ProductsDashboard.detail_serializer_classes
    pc,             \* per worker thread: "idle" or inside get_serializer of a list request
    list_fields,    \* per worker thread: the local list_fields of get_serializer
    thread_request, \* per worker thread: the list request being served
    request,        \* the request handled by the last step
    response,       \* the response produced by the last step
    before,         \* the stored products as they were before the last step
    saves,          \* number of serializer.save() calls made by the last step
    object_reads    \* number of get_object() calls made by the last step

vars == <<products, meta_fields, detail_serializer_classes, pc, list_fields,
          thread_request, request, response, before, saves, object_reads>>

----------------------------------------------------------------------------
(* Bounds of the model *)

\* products that can be stored before create requests are no longer issued
MaxProducts == 2
\* length of Meta.fields beyond which list requests are no longer issued
MaxFields == 3

Workers == {"t1", "t2"}

----------------------------------------------------------------------------
(* Values *)

None == "None"
NoObject == 0                \* get_object() raised Http404
Http404 == "Http404"

ProductSerializer == "ProductSerializer"
SmartCardSerializer == "SmartCardSerializer"
list_serializer_class == "ProductSummarySerializer"

\* the field list configured on the list serializer before any request
ConfiguredFields == <<"product_name">>

\* Meta.model of each serializer class, as a model label
SerializerModel(cls) ==
    IF cls = SmartCardSerializer THEN "shop.smartcard" ELSE "shop.product"

Users == {"anonymous", "customer", "staff"}
is_authenticated(user) == user # "anonymous"
\* the permissions each user holds
UserPermissions(user) ==
    IF user = "staff" THEN {<<"shop", "add_product">>, <<"shop", "change_product">>}
    ELSE IF user = "customer" THEN {<<"shop", "change_product">>}
    ELSE {}

Methods == {"get", "post", "put", "patch", "delete"}
ValidData == {"a", "b"}
InvalidData == {""}
NoData == "-"

\* decimal rendering of the primary keys used in URLs
PkStrings == <<"1", "2", "3", "4", "5", "6", "7", "8", "9">>
ParsePk(s) ==
    IF \E i \in 1..Len(PkStrings) : PkStrings[i] = s
    THEN CHOOSE i \in 1..Len(PkStrings) : PkStrings[i] = s
    ELSE NoObject

----------------------------------------------------------------------------
(* DashboardRouter *)

\* the route table with the two methods of the add route exchanged
routes_add_swapped == <<
    [url |-> <<>>, name |-> "list", suffix |-> "List",
     mapping |-> [m \in {"get"} |-> "list"]],
    [url |-> <<"{lookup}", "change">>, name |-> "change", suffix |-> "Instance",
     mapping |-> [m \in {"get", "post"} |->
                    IF m = "get" THEN "retrieve" ELSE "update"]],
    [url |-> <<"add">>, name |-> "add", suffix |-> "New",
     mapping |-> [m \in {"get", "post"} |->
                    IF m = "get" THEN "create" ELSE "new"]]
>>

\* DashboardRouter.routes: the URL shape after the prefix, the method -> action
\* mapping, and the suffix passed as initkwargs.  A shape is the sequence of
\* path segments after the prefix, "{lookup}" standing for any one segment.
routes == <<
    [url |-> <<>>, name |-> "list", suffix |-> "List",
     mapping |-> [m \in {"get"} |-> "list"]],
    [url |-> <<"{lookup}", "change">>, name |-> "change", suffix |-> "Instance",
     mapping |-> [m \in {"get", "post"} |->
                    IF m = "get" THEN "retrieve" ELSE "update"]],
    [url |-> <<"add">>, name |-> "add", suffix |-> "New",
     mapping |-> [m \in {"get", "post"} |->
                    IF m = "get" THEN "new" ELSE "create"]]
>>

\* (The fourth entry of the table, the DynamicDetailRoute, expands to one route
\* per @detail_route method of the view-set; ProductsDashboard has none.)

\* the router's registry: (prefix, viewset, basename)
registry == <<[prefix |-> "products", viewset |-> "ProductsDashboard",
               basename |-> "product"]>>

SegmentMatches(pattern, segment) ==
    IF pattern = "{lookup}" THEN TRUE ELSE pattern = segment

UrlMatches(url, rest) ==
    /\ Len(url) = Len(rest)
    /\ \A i \in 1..Len(url) : SegmentMatches(url[i], rest[i])

\* URL resolution: 0 for the root view, the index of the first matching route of
\* a registered prefix, or -1 when nothing matches
NoMatch == 0 - 1
RootMatch == 0
Resolve(path) ==
    IF path = <<>> THEN RootMatch
    ELSE IF \E e \in 1..Len(registry) : registry[e].prefix = path[1]
         THEN LET rest == Tail(path)
                  hits == {i \in 1..Len(routes) : UrlMatches(routes[i].url, rest)}
              IN  IF hits = {} THEN NoMatch
                  ELSE CHOOSE i \in hits : \A j \in hits : i <= j
         ELSE NoMatch

\* the action a route maps an HTTP method to, or None
ActionFor(route, method) ==
    IF method \in DOMAIN routes[route].mapping
    THEN routes[route].mapping[method] ELSE None

\* DashboardRouter.get_breadcrumbs
RouterBreadcrumbs == <<[label |-> <<"Dashboard">>, url |-> <<"dashboard:root">>]>>

----------------------------------------------------------------------------
(* Requests *)

Paths ==
    {<<>>, <<"orders">>, <<"products">>, <<"products", "add">>,
     <<"products", "1", "delete">>}
    \cup {<<"products", PkStrings[k], "change">> : k \in 1..(MaxProducts + 1)}

QueryModels == {None, "shop.smartcard", "shop.commodity"}

\* a request carries a body only when it is a POST to the add or change route,
\* and a 'model' query parameter only on the add route
CarriesData(path, method) ==
    /\ method = "post"
    /\ Resolve(path) \notin {NoMatch, RootMatch}
    /\ routes[Resolve(path)].name \in {"add", "change"}

CarriesQuery(path) ==
    /\ Resolve(path) \notin {NoMatch, RootMatch}
    /\ routes[Resolve(path)].name = "add"

\* The requests issued.  Inputs that no code path reads are not varied: the
\* methods no route maps are sent by staff, an anonymous request carries no
\* query parameter and one body, and an unmatched URL is fetched by staff.
Requests ==
    {r \in [user : Users, method : Methods, path : Paths,
            query : QueryModels, data : ValidData \cup InvalidData \cup {NoData}] :
        /\ (r.data # NoData) <=> CarriesData(r.path, r.method)
        /\ (r.query # None) => CarriesQuery(r.path)
        /\ Resolve(r.path) = NoMatch => r.method = "get" /\ r.user = "staff"
        /\ Resolve(r.path) = RootMatch => r.method \in {"get", "post"}
        /\ r.method \in {"put", "patch", "delete"} =>
                r.user = "staff" /\ r.query = None
        /\ r.user = "anonymous" => r.query = None /\ r.data \in {NoData, "a"}}

NoRequest == [user |-> "anonymous", method |-> "get", path |-> <<>>,
              query |-> None, data |-> NoData]

----------------------------------------------------------------------------
(* ProductsDashboard *)

permission_classes == {"IsAuthenticated"}

\* APIView.check_permissions over permission_classes
has_permission(user) ==
    \A p \in permission_classes : p = "IsAuthenticated" => is_authenticated(user)

\* dict.get(key, default)
DictGet(d, key, default) == IF key \in DOMAIN d THEN d[key] ELSE default

\* the lookup segment of a change URL
LookupOf(path) == IF Len(path) >= 2 THEN path[2] ELSE None

\* get_object(): the pk of the product the URL's lookup addresses, or NoObject
\* when the queryset holds no such product (Http404)
get_object(prods, path) ==
    LET pk == ParsePk(LookupOf(path))
    IN  IF pk \in 1..Len(prods) THEN pk ELSE NoObject

\* get_serializer_class reading 'model' from the submitted form instead of the
\* query string (a POST body carries no 'model')
get_serializer_class_from_body(suffix, prods, req, dsc) ==
    IF suffix = "List" THEN list_serializer_class
    ELSE IF suffix = "Instance" THEN
        LET instance == get_object(prods, req.path)
        IN  IF instance = NoObject THEN Http404
            ELSE DictGet(dsc, prods[instance].label, ProductSerializer)
    ELSE IF suffix = "New" THEN
        DictGet(dsc, IF req.method = "post" THEN None ELSE req.query, ProductSerializer)
    ELSE list_serializer_class

\* ProductsDashboard.get_serializer_class; Http404 when get_object() raises
get_serializer_class(suffix, prods, req, dsc) ==
    IF suffix = "List" THEN list_serializer_class
    ELSE IF suffix = "Instance" THEN
        LET instance == get_object(prods, req.path)
        IN  IF instance = NoObject THEN Http404
            ELSE DictGet(dsc, prods[instance].label, ProductSerializer)
    ELSE IF suffix = "New" THEN DictGet(dsc, req.query, ProductSerializer)
    ELSE list_serializer_class

\* the view-set defines no list_display attribute
list_display == None

\* ProductsDashboard.get_list_display
get_list_display(fields) ==
    IF list_display # None THEN list_display ELSE fields

\* the first three statements of the many=True branch of get_serializer:
\* the local list_fields, before it is assigned to Meta.fields
build_list_fields(fields) == <<"pk">> \o get_list_display(fields)

VerboseName(label) ==
    IF label = "shop.smartcard" THEN "Smart Card" ELSE "Product"

\* get_breadcrumbs appending to a list kept on the router class, which still
\* holds the product-list entry of an earlier call
get_breadcrumbs_shared_list(suffix, prods, req, dsc) ==
    LET breadcrumbs ==
            RouterBreadcrumbs \o
            <<[label |-> <<"Products">>, url |-> <<"dashboard:product-list">>],
              [label |-> <<"Products">>, url |-> <<"dashboard:product-list">>]>>
    IN  IF suffix = "Instance" THEN
            LET instance == get_object(prods, req.path)
            IN  IF instance = NoObject THEN <<>>
                ELSE Append(breadcrumbs,
                            [label |-> <<prods[instance].name>>, url |-> req.path])
        ELSE IF suffix = "New" THEN
            Append(breadcrumbs, [label |-> <<"Add", "Product">>, url |-> req.path])
        ELSE breadcrumbs

\* ProductsDashboard.get_breadcrumbs: the list it returns (always two entries or
\* more), or the empty sequence when get_object() raises Http404
get_breadcrumbs(suffix, prods, req, dsc) ==
    LET breadcrumbs ==
            Append(RouterBreadcrumbs,
                   [label |-> <<"Products">>, url |-> <<"dashboard:product-list">>])
    IN  IF suffix = "Instance" THEN
            LET instance == get_object(prods, req.path)
            IN  IF instance = NoObject THEN <<>>
                ELSE Append(breadcrumbs,
                            [label |-> <<prods[instance].name>>, url |-> req.path])
        ELSE IF suffix = "New" THEN
            LET options == SerializerModel(get_serializer_class(suffix, prods, req, dsc))
            IN  Append(breadcrumbs,
                       [label |-> <<"Add", VerboseName(options)>>, url |-> req.path])
        ELSE breadcrumbs

\* ProductsDashboard.has_add_permission
has_add_permission(user) ==
    LET codename == "add_product"
    IN  <<"shop", codename>> \in UserPermissions(user)

\* serializer.is_valid() on the submitted data
is_valid(data) == data \in ValidData

\* serializer.save(): create a product of the serializer's model, or update
\* the instance the serializer was built with
save_new(prods, cls, data) ==
    Append(prods, [label |-> SerializerModel(cls), name |-> data])
\* save() writing through the whole queryset instead of the instance
save_queryset(prods, instance, data) ==
    [pk \in 1..Len(prods) |-> [prods[pk] EXCEPT !.name = data]]
save_instance(prods, instance, data) ==
    [prods EXCEPT ![instance].name = data]

----------------------------------------------------------------------------
(* Handlers.  A handler's outcome is what it returns ("Response", "redirect",
   or "None" when it falls off its end) or the exception it raises
   ("Http404", or "PermissionDenied" / "MethodNotAllowed" raised by the
   pipeline before any handler runs), with the stored products it leaves and the number of
   save() and successful get_object() calls it made. *)

Outcome(kind, action, cls, errors, instance, prods, nsaves, nreads) ==
    [kind |-> kind, action |-> action, serializer |-> cls, errors |-> errors,
     instance |-> instance, products |-> prods, saves |-> nsaves, reads |-> nreads]

\* ProductsDashboard.new
new(req, prods, dsc) ==
    LET serializer == get_serializer_class("New", prods, req, dsc)
    IN  Outcome("Response", "new", serializer, FALSE, NoObject, prods, 0, 0)

\* create saving the serializer without asking is_valid() first
create_unvalidated(req, prods, dsc) ==
    LET serializer == DictGet(dsc, req.query, ProductSerializer)
    IN  Outcome(IF is_valid(req.data) THEN "redirect" ELSE "Response", "create",
                serializer, ~ is_valid(req.data), NoObject,
                Append(prods, [label |-> SerializerModel(serializer),
                               name |-> req.data]), 1, 0)

\* ProductsDashboard.create
create(req, prods, dsc) ==
    LET serializer == get_serializer_class("New", prods, req, dsc)
    IN  IF is_valid(req.data)
        THEN Outcome("redirect", "create", serializer, FALSE, NoObject,
                     save_new(prods, serializer, req.data), 1, 0)
        ELSE Outcome("Response", "create", serializer, TRUE, NoObject, prods, 0, 0)

\* ProductsDashboard.retrieve
retrieve(req, prods, dsc) ==
    LET instance == get_object(prods, req.path)
    IN  IF instance = NoObject
        THEN Outcome("Http404", "retrieve", None, FALSE, NoObject, prods, 0, 0)
        ELSE LET serializer == get_serializer_class("Instance", prods, req, dsc)
             IN  Outcome("Response", "retrieve", serializer, FALSE, instance, prods, 0, 2)

\* update saving the serializer without asking is_valid() first
update_unvalidated(req, prods, dsc) ==
    LET instance == get_object(prods, req.path)
    IN  IF instance = NoObject
        THEN Outcome("Http404", "update", None, FALSE, NoObject, prods, 0, 0)
        ELSE Outcome(IF is_valid(req.data) THEN "redirect" ELSE "None", "update",
                     DictGet(dsc, prods[instance].label, ProductSerializer),
                     ~ is_valid(req.data), instance,
                     [prods EXCEPT ![instance].name = req.data], 1, 2)

\* ProductsDashboard.update
update(req, prods, dsc) ==
    LET instance == get_object(prods, req.path)
    IN  IF instance = NoObject
        THEN Outcome("Http404", "update", None, FALSE, NoObject, prods, 0, 0)
        ELSE LET serializer == get_serializer_class("Instance", prods, req, dsc)
             IN  IF is_valid(req.data)
                 THEN Outcome("redirect", "update", serializer, FALSE, instance,
                              save_instance(prods, instance, req.data), 1, 2)
                 ELSE Outcome("None", "update", serializer, TRUE, instance, prods, 0, 2)

----------------------------------------------------------------------------
(* The request pipeline *)

NoBreadcrumbs == <<>>

Reply(status, view, suffix, action, cls, errors, instance, location, crumbs, add) ==
    [status |-> status, view |-> view, suffix |-> suffix, action |-> action,
     serializer |-> cls, errors |-> errors, instance |-> instance,
     location |-> location, breadcrumbs |-> crumbs, has_add_permission |-> add]

NoResponse ==
    Reply("none", None, None, None, None, FALSE, NoObject, None, NoBreadcrumbs, FALSE)

\* ProductsDashboard.get_renderer_context as finalize_response calls it for a
\* Response of the given status: the template context is added to the reply;
\* when get_breadcrumbs raises Http404 the request ends as a 404 without one
get_renderer_context(status, out, suffix, req, dsc) ==
    LET crumbs == get_breadcrumbs(suffix, out.products, req, dsc)
        found  == suffix = "Instance" /\ crumbs # <<>>
    IN  [response |->
            IF crumbs = <<>>
            THEN Reply("404", "ProductsDashboard", suffix, out.action, None, FALSE,
                       NoObject, None, NoBreadcrumbs, FALSE)
            ELSE Reply(status, "ProductsDashboard", suffix, out.action, out.serializer,
                       out.errors, out.instance, None, crumbs,
                       has_add_permission(req.user)),
         reads |-> out.reads + (IF found THEN 1 ELSE 0)]

\* the status of the Response the pipeline builds for an exception raised by
\* the permission check, the handler lookup or the handler
handle_exception(exc) ==
    IF exc = "Http404" THEN "404"
    ELSE IF exc = "PermissionDenied" THEN "403"
    ELSE IF exc = "MethodNotAllowed" THEN "405"
    ELSE "500"

\* what the pipeline makes of a handler's outcome: a redirect is returned as it
\* is, a missing return value fails the pipeline's check of the response (500),
\* Http404 becomes a 404 Response, and every Response gets its renderer context
finalize_response(out, suffix, req, dsc) ==
    IF out.kind = "redirect"
    THEN [response |-> Reply("302", "ProductsDashboard", suffix, out.action,
                             out.serializer, FALSE, out.instance,
                             "dashboard:product-list", NoBreadcrumbs, FALSE),
          reads |-> out.reads]
    ELSE IF out.kind = "None"
    THEN [response |-> Reply("500", "ProductsDashboard", suffix, out.action, None, FALSE,
                             NoObject, None, NoBreadcrumbs, FALSE),
          reads |-> out.reads]
    ELSE IF out.kind = "Response"
    THEN get_renderer_context("200", out, suffix, req, dsc)
    ELSE get_renderer_context(handle_exception(out.kind), out, suffix, req, dsc)

\* which handler the pipeline selects for a request
dispatch(req) ==
    LET route == Resolve(req.path)
    IN  IF route = NoMatch THEN "no_route"
        ELSE IF route = RootMatch
             THEN (IF req.method = "get" THEN "root" ELSE "method_not_allowed")
        ELSE IF ~ has_permission(req.user) THEN "permission_denied"
        ELSE IF ActionFor(route, req.method) = None THEN "method_not_allowed"
        ELSE ActionFor(route, req.method)

SuffixOf(req) ==
    IF Resolve(req.path) \in {NoMatch, RootMatch} THEN None
    ELSE routes[Resolve(req.path)].suffix

----------------------------------------------------------------------------
(* State machine *)

\* detail_serializer_classes is {} on the class; a project registers its own
DetailSerializerConfigs ==
    {<<>>, [label \in {"shop.smartcard"} |-> SmartCardSerializer]}

Init ==
    /\ products = <<>>
    /\ meta_fields = ConfiguredFields
    /\ detail_serializer_classes \in DetailSerializerConfigs
    /\ pc = [t \in Workers |-> "idle"]
    /\ list_fields = [t \in Workers |-> <<>>]
    /\ thread_request = [t \in Workers |-> NoRequest]
    /\ request = NoRequest
    /\ response = NoResponse
    /\ before = <<>>
    /\ saves = 0
    /\ object_reads = 0

\* No handler but list reads or writes Meta.fields or a thread's list_fields, and
\* list reads and writes nothing else, so the steps of list commute with every
\* other request; the other requests are served while no list is in flight.
NoListInFlight == \A t \in Workers : pc[t] = "idle"

\* a request served in one step: the handler's outcome, finalised
Serve(req, out) ==
    LET final == finalize_response(out, SuffixOf(req), req, detail_serializer_classes)
    IN  /\ NoListInFlight
        /\ request' = req
        /\ before' = products
        /\ products' = out.products
        /\ saves' = out.saves
        /\ response' = final.response
        /\ object_reads' = final.reads
        /\ UNCHANGED <<meta_fields, detail_serializer_classes, pc, list_fields,
                       thread_request>>

\* a request the pipeline answers itself, raising the given exception without
\* running a handler
Reject(req, exc) ==
    Serve(req, Outcome(exc, None, None, FALSE, NoObject, products, 0, 0))

\* RootView.get
RootView(req) ==
    /\ dispatch(req) = "root"
    /\ NoListInFlight
    /\ request' = req
    /\ before' = products
    /\ saves' = 0
    /\ object_reads' = 0
    /\ response' = Reply("200", "RootView", None, "get", None, FALSE, NoObject, None,
                         RouterBreadcrumbs, FALSE)
    /\ UNCHANGED <<products, meta_fields, detail_serializer_classes, pc, list_fields,
                   thread_request>>

\* no URL pattern matches, or the root view is asked for a method it lacks
NotRouted(req) ==
    /\ \/ dispatch(req) = "no_route"
       \/ dispatch(req) = "method_not_allowed" /\ Resolve(req.path) = RootMatch
    /\ NoListInFlight
    /\ request' = req
    /\ before' = products
    /\ saves' = 0
    /\ object_reads' = 0
    /\ response' = Reply(IF dispatch(req) = "no_route" THEN "404" ELSE "405",
                         IF dispatch(req) = "no_route" THEN None ELSE "RootView",
                         None, None, None, FALSE, NoObject, None, NoBreadcrumbs, FALSE)
    /\ UNCHANGED <<products, meta_fields, detail_serializer_classes, pc, list_fields,
                   thread_request>>

\* the permission check of the view-set fails
PermissionDenied(req) ==
    /\ dispatch(req) = "permission_denied"
    /\ Reject(req, "PermissionDenied")

\* the route maps the request's method to no action
MethodNotAllowed(req) ==
    /\ dispatch(req) = "method_not_allowed"
    /\ Resolve(req.path) # RootMatch
    /\ Reject(req, "MethodNotAllowed")

New(req) ==
    /\ dispatch(req) = "new"
    /\ Serve(req, new(req, products, detail_serializer_classes))

Create(req) ==
    /\ dispatch(req) = "create"
    /\ is_valid(req.data) => Len(products) < MaxProducts
    /\ Serve(req, create(req, products, detail_serializer_classes))

Retrieve(req) ==
    /\ dispatch(req) = "retrieve"
    /\ Serve(req, retrieve(req, products, detail_serializer_classes))

Update(req) ==
    /\ dispatch(req) = "update"
    /\ Serve(req, update(req, products, detail_serializer_classes))

\* list, up to the point where get_serializer has built its local list_fields
ListBegin(t, req) ==
    /\ dispatch(req) = "list"
    /\ pc[t] = "idle"
    /\ Len(meta_fields) < MaxFields
    /\ pc' = [pc EXCEPT ![t] = "assign"]
    /\ list_fields' = [list_fields EXCEPT ![t] = build_list_fields(meta_fields)]
    /\ thread_request' = [thread_request EXCEPT ![t] = req]
    /\ request' = req
    /\ before' = products
    /\ saves' = 0
    /\ object_reads' = 0
    /\ response' = Reply("pending", "ProductsDashboard", "List", "list",
                         list_serializer_class, FALSE, NoObject, None, NoBreadcrumbs, FALSE)
    /\ UNCHANGED <<products, meta_fields, detail_serializer_classes>>

\* list, from the assignment to Meta.fields to the finalised response
ListEnd(t) ==
    /\ pc[t] = "assign"
    /\ meta_fields' = list_fields[t]
    /\ pc' = [pc EXCEPT ![t] = "idle"]
    /\ list_fields' = [list_fields EXCEPT ![t] = <<>>]
    /\ thread_request' = [thread_request EXCEPT ![t] = NoRequest]
    /\ LET req == thread_request[t]
           out == Outcome("Response", "list", list_serializer_class, FALSE, NoObject,
                          products, 0, 0)
           final == finalize_response(out, "List", req, detail_serializer_classes)
       IN  /\ request' = req
           /\ response' = final.response
           /\ object_reads' = final.reads
    /\ before' = products
    /\ saves' = 0
    /\ UNCHANGED <<products, detail_serializer_classes>>

\* the requests that reach each handler
RequestsTo == [h \in {dispatch(r) : r \in Requests} |->
                 {r \in Requests : dispatch(r) = h}]

Next ==
    \/ \E req \in RequestsTo["root"] : RootView(req)
    \/ \E req \in RequestsTo["no_route"] \cup RequestsTo["method_not_allowed"] :
            NotRouted(req)
    \/ \E req \in RequestsTo["permission_denied"] : PermissionDenied(req)
    \/ \E req \in RequestsTo["method_not_allowed"] : MethodNotAllowed(req)
    \/ \E req \in RequestsTo["new"] : New(req)
    \/ \E req \in RequestsTo["create"] : Create(req)
    \/ \E req \in RequestsTo["retrieve"] : Retrieve(req)
    \/ \E req \in RequestsTo["update"] : Update(req)
    \/ \E t \in Workers, req \in RequestsTo["list"] : ListBegin(t, req)
    \/ \E t \in Workers : ListEnd(t)

Spec == Init /\ [][Next]_vars

----------------------------------------------------------------------------
(* Properties *)

\* the product a change request addresses, as stored before the request
Addressed == get_object(before, request.path)

\* the last step served a request of the view-set to the end
Served == response.status \notin {"none", "pending"}

\* C1: an update request for an existing product whose data fails validation
\* is answered by the re-rendered form carrying the errors, and the stored
\* products are left as they were.
C1_InvalidUpdateRedisplaysForm ==
    (dispatch(request) = "update" /\ ~ is_valid(request.data) /\ Addressed # NoObject)
        => /\ response.status = "200"
           /\ response.errors
           /\ products = before

\* C2: a create request whose data fails validation is answered by the form
\* re-rendered with the serializer that holds the errors; save is not called
\* and no product is added.
C2_InvalidCreateRedisplaysForm ==
    (dispatch(request) = "create" /\ ~ is_valid(request.data))
        => /\ response.status = "200"
           /\ response.action = "create"
           /\ response.errors
           /\ response.serializer =
                  DictGet(detail_serializer_classes, request.query, ProductSerializer)
           /\ saves = 0
           /\ products = before

C2_Witness ==
    /\ dispatch(request) = "create"
    /\ request.data \in InvalidData
    /\ response.status = "200"
    /\ response.errors
    /\ Len(products) = 1

\* C3: a create or update request with valid data saves exactly once and is
\* answered by a redirect to the product list; create appends one product and
\* changes no stored one, update changes only the addressed product and adds
\* none.
C3_ValidSaveOnceThenRedirect ==
    /\ (dispatch(request) = "create" /\ is_valid(request.data))
          => /\ saves = 1
             /\ response.status = "302"
             /\ response.location = "dashboard:product-list"
             /\ Len(products) = Len(before) + 1
             /\ SubSeq(products, 1, Len(before)) = before
             /\ products[Len(products)].name = request.data
    /\ (dispatch(request) = "update" /\ is_valid(request.data) /\ Addressed # NoObject)
          => /\ saves = 1
             /\ response.status = "302"
             /\ response.location = "dashboard:product-list"
             /\ Len(products) = Len(before)
             /\ \A pk \in 1..Len(before) :
                    pk # Addressed => products[pk] = before[pk]
             /\ products[Addressed] = [before[Addressed] EXCEPT !.name = request.data]

C3_Witness ==
    /\ dispatch(request) = "update"
    /\ is_valid(request.data)
    /\ Len(before) = 2
    /\ Addressed = 1
    /\ products # before
    /\ response.status = "302"

\* C4: on the routes of a registered prefix, GET on the list route runs list
\* (suffix List), GET / POST on the change route run retrieve / update (suffix
\* Instance), GET / POST on the add route run new / create (suffix New); no
\* route maps PUT, PATCH or DELETE, so destroy and partial_update never run.
C4_RouteTable ==
    /\ \A i \in 1..Len(routes) : \A m \in {"put", "patch", "delete"} :
            ActionFor(i, m) = None
    /\ LET route == Resolve(request.path)
       IN  (route \notin {NoMatch, RootMatch} /\ has_permission(request.user)
                /\ response.status # "none")
             => LET name == routes[route].name
                    m == request.method
                IN  /\ response.view = "ProductsDashboard"
                    /\ name = "list" => response.suffix = "List"
                    /\ name = "change" => response.suffix = "Instance"
                    /\ name = "add" => response.suffix = "New"
                    /\ response.action =
                          (IF name = "list" /\ m = "get" THEN "list"
                           ELSE IF name = "change" /\ m = "get" THEN "retrieve"
                           ELSE IF name = "change" /\ m = "post" THEN "update"
                           ELSE IF name = "add" /\ m = "get" THEN "new"
                           ELSE IF name = "add" /\ m = "post" THEN "create"
                           ELSE None)
                    /\ response.action = None => response.status \in {"405", "404"}
                    /\ response.action \notin {"destroy", "partial_update"}

C4_Witness ==
    /\ Resolve(request.path) \notin {NoMatch, RootMatch}
    /\ routes[Resolve(request.path)].name = "change"
    /\ request.method = "delete"
    /\ response.status = "405"
    /\ Len(products) = 2

\* C5: the serializer class is the list serializer for suffix List and for any
\* suffix other than Instance and New; for Instance it is the detail
\* serializer registered under the addressed product's label, else
\* ProductSerializer; for New the one registered under the 'model' query
\* parameter, else ProductSerializer; so new and create with the same query
\* string use the same class.
C5_SerializerBySuffix ==
    /\ \A suffix \in {"List", None, "Detail"} :
            get_serializer_class(suffix, products, request, detail_serializer_classes)
                = list_serializer_class
    /\ (dispatch(request) \in {"new", "create"} /\ Served)
          => response.serializer =
                (IF request.query \in DOMAIN detail_serializer_classes
                 THEN detail_serializer_classes[request.query]
                 ELSE ProductSerializer)
    /\ (dispatch(request) \in {"retrieve", "update"} /\ Addressed # NoObject
            /\ response.status \in {"200", "302"})
          => response.serializer =
                (IF before[Addressed].label \in DOMAIN detail_serializer_classes
                 THEN detail_serializer_classes[before[Addressed].label]
                 ELSE ProductSerializer)

C5_Witness ==
    /\ dispatch(request) = "create"
    /\ request.query = "shop.smartcard"
    /\ response.serializer = SmartCardSerializer

\* C6: whatever list requests were served, Meta.fields of the list serializer
\* is the configured field list, or 'pk' followed by the configured field
\* list: 'pk' is prepended once.
C6_PkPrependedOnce ==
    meta_fields \in {ConfiguredFields, <<"pk">> \o ConfiguredFields}

\* C7: a request of an unauthenticated user to the view-set runs no action,
\* reads no product through get_object and leaves the stored products alone.
C7_UnauthenticatedTouchesNothing ==
    (Resolve(request.path) \notin {NoMatch, RootMatch}
        /\ ~ is_authenticated(request.user) /\ response.status # "none")
      => /\ response.action = None
         /\ object_reads = 0
         /\ products = before

\* C8: the breadcrumb list of a view-set response starts with the Dashboard
\* entry and the product-list entry; it has these two entries for suffix
\* List, one more (linked to the request path) for Instance and for New
\* ('Add <model>'), and never more than three.
C8_Breadcrumbs ==
    (response.view = "ProductsDashboard" /\ response.breadcrumbs # NoBreadcrumbs)
      => LET crumbs == response.breadcrumbs
         IN  /\ Len(crumbs) >= 2
             /\ crumbs[1] = [label |-> <<"Dashboard">>, url |-> <<"dashboard:root">>]
             /\ crumbs[2] = [label |-> <<"Products">>,
                             url |-> <<"dashboard:product-list">>]
             /\ response.suffix = "List" => Len(crumbs) = 2
             /\ response.suffix = "Instance" =>
                    Len(crumbs) = 3 /\ crumbs[3].url = request.path
             /\ response.suffix = "New" =>
                    /\ Len(crumbs) = 3
                    /\ crumbs[3].url = request.path
                    /\ crumbs[3].label[1] = "Add"
             /\ Len(crumbs) <= 3

C8_Witness ==
    /\ response.suffix = "Instance"
    /\ response.status = "200"
    /\ Len(response.breadcrumbs) = 3
    /\ Len(products) = 2

\* C9: the stored products change only by a create or an update request with
\* valid data (an update of an existing product); no step removes a product.
C9_OnlyValidCreateOrUpdateWrites ==
    /\ Len(products) >= Len(before)
    /\ products # before
          => /\ dispatch(request) \in {"create", "update"}
             /\ is_valid(request.data)
             /\ dispatch(request) = "update" => Addressed # NoObject

C9_Witness ==
    /\ dispatch(request) = "update"
    /\ request.data \in InvalidData
    /\ Addressed # NoObject
    /\ Served
    /\ products = before

\* C10: a create request adds a product only when has_add_permission holds
\* for the requesting user.
C10_CreateNeedsAddPermission ==
    (dispatch(request) = "create" /\ Len(products) > Len(before))
        => has_add_permission(request.user)

====
